---- MODULE Spec2Model ----
(***************************************************************************)
(* Model of app.py of MP4AudioToText: the "Transcribe Audio" run of main   *)
(* (extract_audio_from_mp4, transcribe_audio, the unlink of the temporary  *)
(* waveform, save_to_csv) and the pure parts of transcribe_audio and       *)
(* save_to_csv.                                                            *)
(*                                                                         *)
(* Representation.  A Python str is a sequence of one-character strings;   *)
(* the 17-character literal "Final transcript:" is one element of such a   *)
(* sequence (Marker).  A Python float with one decimal is the integer      *)
(* number of tenths (1.2 is 12).  An optional value is <<>> (None) or      *)
(* <<v>>.  A dict is a record and `k in d` is k \in DOMAIN d.              *)
(***************************************************************************)
EXTENDS Integers, Sequences, FiniteSets, TLC

VARIABLES
    pc,                    \* position of main inside the button handler
    audio_path,            \* main: value returned by extract_audio_from_mp4
    audioExists,           \* the temporary .wav file exists on disk
    videoExists,           \* the temporary .mp4 copy exists on disk
    extractFailedAt,       \* step of extract_audio_from_mp4 that raised, or "none"
    proc,                  \* what the backend call attempt did
    transcription_result,  \* main: value returned by transcribe_audio
    errors,                \* st.error messages shown so far, in order
    saveCalled,            \* save_to_csv has been called in this run
    csvWritten,            \* Output/<stem>.csv has been written in this run
    rows                   \* rows handed to pandas by save_to_csv

vars == <<pc, audio_path, audioExists, videoExists, extractFailedAt, proc,
          transcription_result, errors, saveCalled, csvWritten, rows>>

----------------------------------------------------------------------------
(* Bounds *)

MaxOut == 3        \* longest process standard output, in elements
MaxResults == 2    \* longest data['results'] list
MaxSegs == 6       \* longest segments list handed directly to save_to_csv
MaxHttpSegs == 2   \* longest HTTP-style segments list with varied start times

----------------------------------------------------------------------------
(* Python values *)

None == <<>>
Some(v) == <<v>>
Get(opt) == opt[1]

SeqUpTo(S, n) == UNION {[1..k -> S] : k \in 0..n}

Whitespace == {" "}

RECURSIVE LStrip(_)
LStrip(s) ==
    IF s /= <<>> /\ Head(s) \in Whitespace THEN LStrip(Tail(s)) ELSE s

RECURSIVE RStrip(_)
RStrip(s) ==
    IF s /= <<>> /\ s[Len(s)] \in Whitespace
    THEN RStrip(SubSeq(s, 1, Len(s) - 1))
    ELSE s

\* str.strip()
Strip(s) == RStrip(LStrip(s))

\* str.find(c): 0-based index of the first occurrence, -1 when there is none
Find(s, c) ==
    IF \E i \in 1..Len(s) : s[i] = c
    THEN (CHOOSE i \in 1..Len(s) : s[i] = c /\ \A j \in 1..(i - 1) : s[j] /= c) - 1
    ELSE -1

\* str.rfind(c): 0-based index of the last occurrence, -1 when there is none
RFind(s, c) ==
    IF \E i \in 1..Len(s) : s[i] = c
    THEN (CHOOSE i \in 1..Len(s) : s[i] = c /\ \A j \in (i + 1)..Len(s) : s[j] /= c) - 1
    ELSE -1

Digits == <<"0", "1", "2", "3", "4", "5", "6", "7", "8", "9">>

RECURSIVE NatStr(_)
NatStr(n) ==
    IF n < 10 THEN <<Digits[n + 1]>>
    ELSE NatStr(n \div 10) \o <<Digits[(n % 10) + 1]>>

\* str(n) for an int n
PyStr(n) == IF n < 0 THEN <<"-">> \o NatStr(0 - n) ELSE NatStr(n)

\* round(x) of a float x given in tenths: nearest int, ties to the even one
PyRoundFloor(x) == x \div 10
PyRound(x) ==
    LET q == x \div 10
        r == x % 10
    IN  IF r < 5 THEN q
        ELSE IF r > 5 THEN q + 1
        ELSE IF q % 2 = 0 THEN q ELSE q + 1

----------------------------------------------------------------------------
(* extract_audio_from_mp4 *)

ExtractSteps == {"write_input", "open_container", "write_audio", "close_clip"}

MsgExtract == "Error extracting audio"

\* The files left on disk and the value returned when step failAt raises
\* ("none": no step raises).  The .wav is created first (delete=False), then
\* the .mp4 copy (delete=False); only the success path unlinks the copy, and
\* the except clause unlinks nothing.
ExtractAudioFromMp4(failAt) ==
    IF failAt = "none"
    THEN [ret |-> Some("temp_audio.wav"), audio |-> TRUE, video |-> FALSE,
          errors |-> <<>>]
    ELSE [ret |-> None, audio |-> TRUE, video |-> TRUE,
          errors |-> <<MsgExtract>>]

----------------------------------------------------------------------------
(* transcribe_audio *)

Marker == "Final transcript:"

MsgNoClient == "Python client not found"
MsgFailed == "Transcription failed"
MsgNoOutput == "No transcription output received"
MsgNoJson == "Could not parse JSON from output"
MsgBadJson == "Failed to parse JSON"
MsgTimeout == "Transcription timed out"
MsgException == "Error during transcription"

\* Elements of the process standard output: braces, whitespace, other text
\* and the marker literal.
OutChars == {"{", "}", " ", "x", Marker}

\* Items of data['results'] as the backend can emit them.
ResultOptions ==
    { [jsonType |-> "object", audioProcessed |-> 26,
       alternatives |-> <<[transcript |-> <<" ", "h", "i">>,
                           words |-> <<[speakerTag |-> 1]>>]>>],
      [jsonType |-> "object", audioProcessed |-> 10,
       alternatives |-> <<[transcript |-> <<"a">>]>>],
      [jsonType |-> "object", audioProcessed |-> 30,
       alternatives |-> <<[transcript |-> <<" ">>]>>],
      [jsonType |-> "object", audioProcessed |-> 5,
       alternatives |-> <<>>],
      [jsonType |-> "object", audioProcessed |-> 40],
      [jsonType |-> "object",
       alternatives |-> <<[transcript |-> <<"b">>,
                           words |-> <<[word |-> <<"b">>]>>]>>],
      [jsonType |-> "object",
       alternatives |-> <<[words |-> <<>>]>>],
      [jsonType |-> "number"] }

\* Values json.loads can return for a region that starts with '{': a dict
\* with or without the key 'results'.
JsonObjects ==
    {[other |-> 1]} \cup {[results |-> rs] : rs \in SeqUpTo(ResultOptions, MaxResults)}

NoJson == [ok |-> FALSE]

JsonStart(output) == Find(output, "{")
JsonEnd(output) == RFind(output, "}") + 1

\* json_start >= 0 and json_end > json_start
HasRegion(output) == JsonStart(output) >= 0 /\ JsonEnd(output) > JsonStart(output)

\* final_transcript_marker in output
MarkerIn(output) == \E i \in 1..Len(output) : output[i] = Marker

\* output.split(final_transcript_marker, 1)[1].strip()
AfterMarker(output) ==
    LET i == CHOOSE k \in 1..Len(output) :
                 output[k] = Marker /\ \A j \in 1..(k - 1) : output[j] /= Marker
    IN  Strip(SubSeq(output, i + 1, Len(output)))

\* alternative.get('transcript', '').strip()
Transcript(alternative) ==
    Strip(IF "transcript" \in DOMAIN alternative THEN alternative.transcript ELSE <<>>)

\* result_item.get('audioProcessed', 0.0)
AudioProcessed(result_item) ==
    IF "audioProcessed" \in DOMAIN result_item THEN result_item.audioProcessed ELSE 0

\* the speaker tag of the first word of the alternative, None without words
SpeakerTag(alternative) ==
    IF "words" \in DOMAIN alternative /\ Len(alternative.words) > 0
    THEN LET first_word == alternative.words[1]
         IN  IF "speakerTag" \in DOMAIN first_word
             THEN Some(first_word.speakerTag)
             ELSE None
    ELSE None

\* result_data['text'] += transcript + ' '
AccumulateTextNoSpace(text, transcript) == text \o transcript
AccumulateText(text, transcript) == text \o transcript \o <<" ">>

\* result_data['segments'].append(segment)
AddSegmentFront(segments, segment) == <<segment>> \o segments
AddSegment(segments, segment) == Append(segments, segment)

\* The loop over data['results'], from result_data = acc.  raised: an item
\* that is no dict makes `'alternatives' in result_item` raise TypeError.
RECURSIVE ExtractResults(_, _)
ExtractResults(results, acc) ==
    IF results = <<>> \/ acc.raised THEN acc
    ELSE LET result_item == Head(results)
         IN  IF result_item.jsonType /= "object"
             THEN [acc EXCEPT !.raised = TRUE]
             ELSE IF "alternatives" \in DOMAIN result_item
                     /\ Len(result_item.alternatives) > 0
             THEN LET alternative == result_item.alternatives[1]
                      transcript == Transcript(alternative)
                  IN  IF transcript /= <<>>
                      THEN ExtractResults(Tail(results),
                             [acc EXCEPT
                                !.text = AccumulateText(acc.text, transcript),
                                !.segments = AddSegment(acc.segments,
                                    [start |-> AudioProcessed(result_item),
                                     text |-> transcript,
                                     speaker |-> SpeakerTag(alternative)])])
                      ELSE ExtractResults(Tail(results), acc)
             ELSE ExtractResults(Tail(results), acc)

\* If no segments found, fall back to extracting just the final transcript
FinalTranscriptFallback(result_data, output) ==
    IF result_data.segments = <<>> /\ result_data.text /= <<>>
    THEN IF MarkerIn(output)
         THEN [text |-> AfterMarker(output),
               segments |-> <<[start |-> 0, text |-> AfterMarker(output)]>>]
         ELSE result_data
    ELSE result_data

\* return result_data if result_data['text'] else None
ReturnAlways(result_data) == Some(result_data)
ReturnResult(result_data) ==
    IF result_data.text /= <<>> THEN Some(result_data) ELSE None

\* The body of transcribe_audio after json.loads returned data.
NormalizeData(data, output) ==
    LET empty == [text |-> <<>>, segments |-> <<>>, raised |-> FALSE]
        looped == IF "results" \in DOMAIN data
                  THEN ExtractResults(data.results, empty)
                  ELSE empty
    IN  IF looped.raised
        THEN [result |-> None, errors |-> <<MsgException>>]
        ELSE [result |-> ReturnResult(FinalTranscriptFallback(
                             [text |-> Strip(looped.text),
                              segments |-> looped.segments], output)),
              errors |-> <<>>]

\* transcribe_audio on the backend outcome p: the value returned and the
\* st.error messages shown.
TranscribeAudio(p) ==
    IF p.kind = "missing_client" THEN [result |-> None, errors |-> <<MsgNoClient>>]
    ELSE IF p.kind = "timeout" THEN [result |-> None, errors |-> <<MsgTimeout>>]
    ELSE IF p.kind = "exception" THEN [result |-> None, errors |-> <<MsgException>>]
    ELSE IF p.returncode /= 0 THEN [result |-> None, errors |-> <<MsgFailed>>]
    ELSE LET output == Strip(p.stdout)
         IN  IF output = <<>> THEN [result |-> None, errors |-> <<MsgNoOutput>>]
             ELSE IF ~HasRegion(output)
             THEN [result |-> None, errors |-> <<MsgNoJson>>]
             ELSE IF ~p.json.ok
             THEN [result |-> None, errors |-> <<MsgBadJson>>]
             ELSE NormalizeData(p.json.data, output)

\* What the backend call attempt can do: the client script is missing,
\* subprocess.run raises TimeoutExpired or another exception, or the process
\* completes with a return code and a standard output.
BackendKinds == {"missing_client", "timeout", "exception", "completed"}
ReturnCodes == {0, 1}
\* Every short output, and two longer ones as the client prints them: the
\* JSON object followed by the marker line, and the marker line alone.
Stdouts ==
    SeqUpTo(OutChars, MaxOut)
    \cup {<<"{", "x", "}", " ", Marker, " ", "x", " ", "x", " ">>,
          <<Marker, " ", "x", " ", "x">>}

\* What json.loads can make of the region first '{' .. last '}' of the
\* output: JSONDecodeError or a dict.  It is only called when the return
\* code is 0 and the region exists.
JsonOutcomes(kind, rc, out) ==
    IF kind = "completed" /\ rc = 0 /\ HasRegion(Strip(out))
    THEN {NoJson} \cup {[ok |-> TRUE, data |-> d] : d \in JsonObjects}
    ELSE {NoJson}

NoBackend == [kind |-> "not_called", returncode |-> 0, stdout |-> <<>>, json |-> NoJson]

----------------------------------------------------------------------------
(* save_to_csv *)

MsgSave == "Error saving CSV"

SpeakerPrefix == <<"S", "p", "e", "a", "k", "e", "r", " ">>

\* segment.get('speaker', None)
SegmentSpeaker(segment) ==
    IF "speaker" \in DOMAIN segment THEN segment.speaker ELSE None

\* The speaker label of the segment at 0-based index i.
SpeakerLabelNoOffset(i, segment) ==
    IF SegmentSpeaker(segment) /= None
    THEN SpeakerPrefix \o PyStr(Get(SegmentSpeaker(segment)) + 1)
    ELSE SpeakerPrefix \o PyStr(i % 5)
SpeakerLabel(i, segment) ==
    IF SegmentSpeaker(segment) /= None
    THEN SpeakerPrefix \o PyStr(Get(SegmentSpeaker(segment)) + 1)
    ELSE SpeakerPrefix \o PyStr((i % 5) + 1)

\* str(round(segment.get('start', 0)))
SegmentSeconds(segment) ==
    PyStr(PyRound(IF "start" \in DOMAIN segment THEN segment.start ELSE 0))

\* segment.get('text', '').strip()
SegmentText(segment) ==
    Strip(IF "text" \in DOMAIN segment THEN segment.text ELSE <<>>)

\* The rows save_to_csv prepares for transcription_data.
CsvRows(transcription_data) ==
    IF "segments" \in DOMAIN transcription_data
    THEN [k \in 1..Len(transcription_data.segments) |->
            [Seconds |-> SegmentSeconds(transcription_data.segments[k]),
             Speaker |-> SpeakerLabel(k - 1, transcription_data.segments[k]),
             Text |-> SegmentText(transcription_data.segments[k])]]
    ELSE <<[Seconds |-> <<"0">>,
            Speaker |-> SpeakerPrefix \o <<"1">>,
            Text |-> IF "text" \in DOMAIN transcription_data
                     THEN transcription_data.text ELSE <<>>]>>

\* save_to_csv: ioFail says that mkdir or to_csv raised.
SaveToCsv(transcription_data, ioFail) ==
    IF ioFail
    THEN [written |-> FALSE, rows |-> <<>>, errors |-> <<MsgSave>>]
    ELSE [written |-> TRUE, rows |-> CsvRows(transcription_data), errors |-> <<>>]

----------------------------------------------------------------------------
(* main: the "Transcribe Audio" button *)

Init ==
    /\ pc = "idle"
    /\ audio_path = None
    /\ audioExists = FALSE
    /\ videoExists = FALSE
    /\ extractFailedAt = "none"
    /\ proc = NoBackend
    /\ transcription_result = None
    /\ errors = <<>>
    /\ saveCalled = FALSE
    /\ csvWritten = FALSE
    /\ rows = <<>>

\* audio_path = extract_audio_from_mp4(uploaded_file); if audio_path: ...
MainExtract ==
    /\ pc = "idle"
    /\ \E failAt \in ExtractSteps \cup {"none"} :
         LET r == ExtractAudioFromMp4(failAt)
         IN  /\ audio_path' = r.ret
             /\ audioExists' = r.audio
             /\ videoExists' = r.video
             /\ extractFailedAt' = failAt
             /\ errors' = errors \o r.errors
             /\ pc' = IF r.ret /= None THEN "transcribe" ELSE "done"
    /\ UNCHANGED <<proc, transcription_result, saveCalled, csvWritten, rows>>

\* transcription_result = transcribe_audio(audio_path)
MainTranscribe ==
    /\ pc = "transcribe"
    /\ \E kind \in BackendKinds, rc \in ReturnCodes, out \in Stdouts :
         /\ kind /= "completed" => (rc = 0 /\ out = <<>>)
         /\ \E j \in JsonOutcomes(kind, rc, out) :
              LET p == [kind |-> kind, returncode |-> rc, stdout |-> out, json |-> j]
                  r == TranscribeAudio(p)
              IN  /\ proc' = p
                  /\ transcription_result' = r.result
                  /\ errors' = errors \o r.errors
    /\ pc' = "cleanup"
    /\ UNCHANGED <<audio_path, audioExists, videoExists, extractFailedAt,
                   saveCalled, csvWritten, rows>>

\* try: os.unlink(audio_path) except: pass
MainCleanupOnSuccess ==
    /\ pc = "cleanup"
    /\ audioExists' = IF transcription_result /= None THEN FALSE ELSE audioExists
    /\ pc' = "save"
    /\ UNCHANGED <<audio_path, videoExists, extractFailedAt, proc,
                   transcription_result, errors, saveCalled, csvWritten, rows>>
MainCleanup ==
    /\ pc = "cleanup"
    /\ audioExists' = FALSE
    /\ pc' = "save"
    /\ UNCHANGED <<audio_path, videoExists, extractFailedAt, proc,
                   transcription_result, errors, saveCalled, csvWritten, rows>>

\* if transcription_result: csv_path, df = save_to_csv(transcription_result, ...)
MainSave ==
    /\ pc = "save"
    /\ transcription_result /= None
    /\ \E ioFail \in BOOLEAN :
         LET r == SaveToCsv(Get(transcription_result), ioFail)
         IN  /\ csvWritten' = r.written
             /\ rows' = r.rows
             /\ errors' = errors \o r.errors
    /\ saveCalled' = TRUE
    /\ pc' = "done"
    /\ UNCHANGED <<audio_path, audioExists, videoExists, extractFailedAt, proc,
                   transcription_result>>

\* transcription_result is None: nothing more happens in the handler
MainSkipSave ==
    /\ pc = "save"
    /\ transcription_result = None
    /\ pc' = "done"
    /\ UNCHANGED <<audio_path, audioExists, videoExists, extractFailedAt, proc,
                   transcription_result, errors, saveCalled, csvWritten, rows>>

Next ==
    \/ MainExtract
    \/ MainTranscribe
    \/ MainCleanup
    \/ MainSave
    \/ MainSkipSave

Spec == Init /\ [][Next]_vars

----------------------------------------------------------------------------
(* save_to_csv on any transcription_data *)

Hi == <<"h", "i">>
There == <<"t", "h", "e", "r", "e">>
HiThere == Hi \o <<" ">> \o There

\* Segments of both shapes: HTTP-style {start, text}, process-style with a
\* speaker tag or with speaker None, and one without 'start'.
SegmentOptions ==
    { [start |-> 12, text |-> There],
      [start |-> 26, text |-> <<"a">>, speaker |-> Some(1)],
      [start |-> 0, text |-> <<"b", " ">>, speaker |-> None],
      [text |-> Hi, speaker |-> Some(0)] }

\* HTTP-style segments with start times on both sides of the rounding ties.
HttpSegmentOptions ==
    {[start |-> t, text |-> x] : t \in {0, 5, 12, 15, 25, 26}, x \in {Hi, There}}

CsvSegmentLists ==
    SeqUpTo(SegmentOptions, MaxSegs) \cup SeqUpTo(HttpSegmentOptions, MaxHttpSegs)

CsvPayloads ==
    {[text |-> t, segments |-> s] : t \in {<<>>, HiThere}, s \in CsvSegmentLists}
    \cup {[text |-> t] : t \in {<<>>, Hi, HiThere}}

InitCsv ==
    /\ pc = "save"
    /\ audio_path = Some("temp_audio.wav")
    /\ audioExists = FALSE
    /\ videoExists = FALSE
    /\ extractFailedAt = "none"
    /\ proc = NoBackend
    /\ transcription_result \in {Some(d) : d \in CsvPayloads}
    /\ errors = <<>>
    /\ saveCalled = FALSE
    /\ csvWritten = FALSE
    /\ rows = <<>>

NextCsv == MainSave

SpecCsv == InitCsv /\ [][NextCsv]_vars

----------------------------------------------------------------------------
(* Vocabulary of the properties, stated on the inputs of the run *)

\* transcribe_audio has returned to main
Returned == pc \in {"cleanup", "save", "done"} /\ proc.kind /= "not_called"

NonBlank(s) == {i \in 1..Len(s) : s[i] \notin Whitespace}

\* s without its leading and trailing whitespace
Trimmed(s) ==
    IF NonBlank(s) = {} THEN <<>>
    ELSE LET lo == CHOOSE i \in NonBlank(s) : \A j \in NonBlank(s) : i <= j
             hi == CHOOSE i \in NonBlank(s) : \A j \in NonBlank(s) : j <= i
         IN  [k \in 1..(hi - lo + 1) |-> s[lo + k - 1]]

\* the process output holds a '{' with a '}' somewhere after it
BraceRegion(out) ==
    \E i \in 1..Len(out) : \E j \in (i + 1)..Len(out) : out[i] = "{" /\ out[j] = "}"

\* the process exited with 0 and json.loads returned a dict for its output
JsonParsed ==
    /\ proc.kind = "completed"
    /\ proc.returncode = 0
    /\ BraceRegion(Trimmed(proc.stdout))
    /\ proc.json.ok

\* the trimmed transcript of the first alternative of a result, '' without one
FirstTranscript(item) ==
    IF /\ item.jsonType = "object"
       /\ "alternatives" \in DOMAIN item
       /\ item.alternatives /= <<>>
       /\ "transcript" \in DOMAIN item.alternatives[1]
    THEN Trimmed(item.alternatives[1].transcript)
    ELSE <<>>

\* indices of the results that have a non-empty trimmed first transcript
Kept(results) == {i \in 1..Len(results) : FirstTranscript(results[i]) /= <<>>}

AllObjects(results) == \A i \in 1..Len(results) : results[i].jsonType = "object"

\* the k-th smallest element of the set of indices K
Nth(K, k) == CHOOSE i \in K : Cardinality({j \in K : j <= i}) = k

NonDecreasing(f) == \A i \in 1..Len(f) : \A j \in (i + 1)..Len(f) : f[i] <= f[j]

RECURSIVE JoinSpaces(_)
JoinSpaces(texts) ==
    IF texts = <<>> THEN <<>>
    ELSE IF Len(texts) = 1 THEN texts[1]
    ELSE texts[1] \o <<" ">> \o JoinSpaces(Tail(texts))

\* the backend stage produced something usable: the process exited with 0,
\* its output holds a JSON object with 'results', every result is an object
\* and at least one has a non-empty trimmed first transcript
UsableBackend ==
    /\ JsonParsed
    /\ "results" \in DOMAIN proc.json.data
    /\ AllObjects(proc.json.data.results)
    /\ Kept(proc.json.data.results) /= {}

\* the segments of the value transcribe_audio returned, <<>> for None
ReturnedSegments ==
    IF transcription_result = None THEN <<>> ELSE Get(transcription_result).segments

IsNat(str) == str /= <<>> /\ \A i \in 1..Len(str) : \E d \in 1..10 : Digits[d] = str[i]

RECURSIVE ParseNat(_)
ParseNat(str) ==
    IF str = <<>> THEN 0
    ELSE 10 * ParseNat(SubSeq(str, 1, Len(str) - 1))
         + (CHOOSE d \in 0..9 : Digits[d + 1] = str[Len(str)])

\* x.xx for a float of one decimal given in tenths
TwoDecimals(t) == NatStr(t \div 10) \o <<".", Digits[(t % 10) + 1], "0">>

Abs(n) == IF n < 0 THEN 0 - n ELSE n

\* save_to_csv was called with transcription_data and wrote the file
Exported == saveCalled /\ csvWritten /\ transcription_result /= None

TranscriptionData == Get(transcription_result)

\* {start, text} segments without a speaker field
HttpStyle(d) ==
    /\ "segments" \in DOMAIN d
    /\ \A k \in 1..Len(d.segments) : DOMAIN d.segments[k] = {"start", "text"}

ScenarioA ==
    [text |-> HiThere,
     segments |-> <<[start |-> 0, text |-> Hi], [start |-> 12, text |-> There]>>]

----------------------------------------------------------------------------
(* Properties *)

C2_NoLeakOnExtractionFailure ==
    (pc /= "idle" /\ extractFailedAt /= "none") =>
        (errors /= <<>> /\ ~audioExists /\ ~videoExists)

\* C3: save_to_csv is called and the CSV written only if extraction returned
\* a path and the backend stage produced a usable result; after a failed
\* extraction, a non-zero exit, a timeout, an output with no JSON and no
\* marker, a JSON parse failure or an empty transcript, save_to_csv is never
\* called and no file is written.
C3_FailFast ==
    /\ (saveCalled \/ csvWritten) =>
          (extractFailedAt = "none" /\ audio_path /= None /\ UsableBackend)
    /\ (\/ extractFailedAt /= "none"
        \/ proc.kind = "timeout"
        \/ proc.kind = "completed" /\ proc.returncode /= 0
        \/ proc.kind = "completed" /\ ~BraceRegion(Trimmed(proc.stdout))
                                   /\ ~MarkerIn(proc.stdout)
        \/ proc.kind = "completed" /\ proc.returncode = 0
                                   /\ BraceRegion(Trimmed(proc.stdout))
                                   /\ ~proc.json.ok
        \/ JsonParsed /\ ~UsableBackend)
       => (~saveCalled /\ ~csvWritten)

C3_Witness ==
    /\ pc = "done"
    /\ proc.kind = "completed"
    /\ proc.returncode = 0
    /\ proc.stdout = <<"x">>
    /\ errors = <<MsgNoJson>>
    /\ ~saveCalled
    /\ ~csvWritten

\* C4: every failed run is user-visible: when the run has ended and no
\* output file was produced, at least one error message has been shown,
\* also when the output parses as JSON but yields no transcript text.
C4_FailureVisible ==
    (pc = "done" /\ ~csvWritten) => errors /= <<>>

\* C5: when the output holds a JSON object that parses but has no
\* recognizable result structure and the raw output holds the marker
\* 'Final transcript:' followed by the transcript, transcribe_audio returns
\* the text after the marker with exactly one segment that starts at 0.0 and
\* holds that text.
C5_MarkerFallback ==
    (/\ Returned
     /\ JsonParsed
     /\ "results" \in DOMAIN proc.json.data =>
            (/\ AllObjects(proc.json.data.results)
             /\ Kept(proc.json.data.results) = {})
     /\ MarkerIn(proc.stdout)
     /\ AfterMarker(Trimmed(proc.stdout)) /= <<>>
     /\ \A i \in 1..Len(AfterMarker(Trimmed(proc.stdout))) :
          AfterMarker(Trimmed(proc.stdout))[i] \notin {"{", "}", Marker})
    => /\ transcription_result /= None
       /\ Get(transcription_result).text = AfterMarker(Trimmed(proc.stdout))
       /\ Len(Get(transcription_result).segments) = 1
       /\ Get(transcription_result).segments[1].start = 0
       /\ Get(transcription_result).segments[1].text
             = AfterMarker(Trimmed(proc.stdout))

\* C6: for any payload with a non-empty full text and zero segments (the
\* key 'segments' absent, or present with an empty list) the export is
\* exactly one row ('0', 'Speaker 1', full text).
C6_FullTextRow ==
    (/\ Exported
     /\ "text" \in DOMAIN TranscriptionData
     /\ TranscriptionData.text /= <<>>
     /\ "segments" \in DOMAIN TranscriptionData => TranscriptionData.segments = <<>>)
    => rows = <<[Seconds |-> <<"0">>,
                 Speaker |-> <<"S", "p", "e", "a", "k", "e", "r", " ", "1">>,
                 Text |-> TranscriptionData.text]>>

\* C7: save_to_csv emits one row per segment in segment order; the label of
\* the row at 0-based index i is 'Speaker (t+1)' for a segment with backend
\* tag t and 'Speaker ((i mod 5)+1)' for one without, i counting all
\* segments, so a synthesized label lies in Speaker 1..Speaker 5.
C7_RowsAndLabels ==
    (Exported /\ "segments" \in DOMAIN TranscriptionData) =>
        LET segs == TranscriptionData.segments
        IN  /\ Len(rows) = Len(segs)
            /\ \A k \in 1..Len(segs) :
                 LET label == rows[k].Speaker
                     number == SubSeq(label, 9, Len(label))
                     tagged == "speaker" \in DOMAIN segs[k] /\ segs[k].speaker /= None
                 IN  /\ rows[k].Text =
                          (IF "text" \in DOMAIN segs[k] THEN Trimmed(segs[k].text) ELSE <<>>)
                     /\ SubSeq(label, 1, 8) = <<"S", "p", "e", "a", "k", "e", "r", " ">>
                     /\ IsNat(number)
                     /\ tagged => ParseNat(number) = segs[k].speaker[1] + 1
                     /\ ~tagged => /\ ParseNat(number) = ((k - 1) % 5) + 1
                                   /\ ParseNat(number) \in 1..5

C7_Witness ==
    /\ Exported
    /\ "segments" \in DOMAIN TranscriptionData
    /\ Len(rows) = 6
    /\ "speaker" \in DOMAIN TranscriptionData.segments[2]
    /\ TranscriptionData.segments[2].speaker = Some(1)
    /\ rows[2].Speaker = <<"S", "p", "e", "a", "k", "e", "r", " ", "2">>
    /\ "speaker" \notin DOMAIN TranscriptionData.segments[6]
    /\ rows[6].Speaker = <<"S", "p", "e", "a", "k", "e", "r", " ", "1">>

C9_StartsNonDecreasing ==
    (Returned /\ transcription_result /= None) =>
        NonDecreasing([k \in 1..Len(ReturnedSegments) |-> ReturnedSegments[k].start])

\* C9 amended: transcribe_audio keeps the backend's result order and never
\* reorders: the k-th segment comes from the k-th result that has a
\* non-empty trimmed first transcript, with that transcript as text and the
\* result's audioProcessed (0.0 when absent) as start; so the start times of
\* the segments are non-decreasing exactly when those of these results are.
C9_OrderKept ==
    (/\ Returned
     /\ JsonParsed
     /\ "results" \in DOMAIN proc.json.data
     /\ AllObjects(proc.json.data.results))
    => LET results == proc.json.data.results
           kept == Kept(results)
           start(i) == IF "audioProcessed" \in DOMAIN results[i]
                       THEN results[i].audioProcessed ELSE 0
       IN  /\ Len(ReturnedSegments) = Cardinality(kept)
           /\ \A k \in 1..Len(ReturnedSegments) :
                /\ ReturnedSegments[k].start = start(Nth(kept, k))
                /\ ReturnedSegments[k].text = FirstTranscript(results[Nth(kept, k)])
           /\ NonDecreasing([k \in 1..Len(ReturnedSegments) |-> ReturnedSegments[k].start])
                <=> (\A i \in kept : \A j \in kept : i < j => start(i) <= start(j))

C9_Witness ==
    /\ Returned
    /\ JsonParsed
    /\ Len(ReturnedSegments) = 2
    /\ ReturnedSegments[1].start = 26
    /\ ReturnedSegments[2].start = 0
    /\ ReturnedSegments[1].text = Hi

\* C10: for every result transcribe_audio returns, the text is the texts of
\* its segments joined by single spaces in order, every segment text is
\* non-empty and trimmed, results with an empty trimmed first transcript
\* contribute no segment, and there is at least one segment.
C10_TextIsJoinedSegments ==
    (Returned /\ transcription_result /= None) =>
        LET r == Get(transcription_result)
        IN  /\ Len(r.segments) >= 1
            /\ r.text = JoinSpaces([k \in 1..Len(r.segments) |-> r.segments[k].text])
            /\ \A k \in 1..Len(r.segments) :
                 r.segments[k].text /= <<>> /\ Trimmed(r.segments[k].text) = r.segments[k].text
            /\ JsonParsed
            /\ "results" \in DOMAIN proc.json.data
            /\ Len(r.segments) = Cardinality(Kept(proc.json.data.results))

C10_Witness ==
    /\ Returned
    /\ transcription_result /= None
    /\ Len(Get(transcription_result).segments) = 2
    /\ Get(transcription_result).text = <<"h", "i", " ", "a">>

====
